---- MODULE Spec2Model ----
(***************************************************************************)
(* A model of window.go: the rolling window of success/failure buckets    *)
(* behind the circuit breaker.  A window owns a container/ring of buckets, *)
(* a pointer to the current bucket (w.buckets), the duration of one bucket *)
(* (w.bucketTime), the time of the last write (w.lastAccess) and a         *)
(* sync.RWMutex (w.bucketLock).                                            *)
(*                                                                         *)
(* Three specifications are given.  Spec is the window used by one caller: *)
(* every method call is one action, and the clock advances between calls.  *)
(* ConcSpec is the window used by several goroutines: a call is a sequence *)
(* of steps (lock, the statements of the body, unlock) that interleave     *)
(* with the steps of the other goroutines; the clock advances whenever a   *)
(* step reads it.  FairSpec is the goroutines of ConcSpec under a fair     *)
(* scheduler and a fair lock.                                              *)
(*                                                                         *)
(* calls and rotations record the history of the window in both; last,     *)
(* born, maxGap, clean and recorded do so for the one caller of Spec only, *)
(* burst for the goroutines of ConcSpec only.                              *)
(***************************************************************************)
EXTENDS Integers, Sequences, FiniteSets, TLC

\* ---------------------------------------------------------------- bounds
\* The largest windowBuckets handed to NewWindow (the smallest is -1).
MaxBuckets == 2
\* The largest windowTime handed to NewWindow, in clock units (the smallest is 0).
MaxWindowTime == 2
\* The clock stops advancing at MaxTime.
MaxTime == 4
\* The number of Fail/Success calls made on one window.
MaxWrites == 3
\* The longest pause between two calls of the single caller.
MaxPause == 2
\* The number of Reset calls made on one window.
MaxResets == 1
\* The number of goroutines that call the window concurrently.
NumProcs == 2
\* The number of calls the goroutines make between them.
MaxCalls == 3
\* The clock the goroutines read stops advancing at MaxTicks.
MaxTicks == 2
\* The number of calls the goroutines make between them under FairSpec.
MaxFairCalls == 2

\* ----------------------------------------------------------------- state
VARIABLES
    windowBuckets,  \* NewWindow's argument windowBuckets
    phase,          \* "new" before NewWindow, "live" once it returned, "panic"
    panicAt,        \* the function that panicked, "" if none
    ring,           \* the elements of the ring: a sequence of buckets
    buckets,        \* w.buckets: the position of the current element, 0 = nil
    bucketTime,     \* w.bucketTime
    lastAccess,     \* w.lastAccess
    now,            \* the clock read by time.Now() and time.Since()
    last,           \* the call that returned last, and what it returned
    calls,          \* how many Fail, Success and Reset calls have returned
    rotations,      \* how many writes rotated
    born,           \* per bucket: when its oldest counted event was recorded
    maxGap,         \* the longest time.Since(w.lastAccess) a write has seen
    clean,          \* Reset has returned and no write has been made since
    burst,          \* the first rotation: when, and the writes returned by then
    recorded,       \* per number of rotations: the events recorded at that number
    pc,             \* per goroutine: where it is in its call
    op,             \* per goroutine: the method it is calling
    loc,            \* per goroutine: the local variables of the call
    lockW,          \* w.bucketLock: the goroutine holding it for writing, 0 = none
    lockR,          \* w.bucketLock: the goroutines holding it for reading
    budget          \* the calls the goroutines may still make

wvars == <<windowBuckets, phase, panicAt, ring, buckets,
           bucketTime, lastAccess, now>>
gvars == <<last, calls, rotations, born, maxGap, clean, burst, recorded>>
cvars == <<pc, op, loc, lockW, lockR, budget>>
vars == <<wvars, gvars, cvars>>

\* ------------------------------------------------------------- arithmetic
\* Go's integer division truncates toward zero.
GoDiv(a, b) ==
    LET abs(x) == IF x < 0 THEN -x ELSE x
        q == abs(a) \div abs(b)
    IN  IF (a < 0) = (b < 0) THEN q ELSE -q

RECURSIVE Gcd(_, _)
Gcd(a, b) == IF b = 0 THEN a ELSE Gcd(b, a % b)

\* float64(n) / float64(d) for d > 0, kept as the fraction in lowest terms:
\* for the small counts of the model two such quotients are the same float64
\* exactly when they are the same fraction.
Quotient(n, d) == LET g == Gcd(n, d) IN [num |-> n \div g, den |-> d \div g]

\* The float64 0.0.
Zero == [num |-> 0, den |-> 1]

\* ----------------------------------------------------------------- bucket
\* &bucket{}
NewBucket == [failure |-> 0, success |-> 0]

\* The Value of a ring element that was never set: the nil interface.
NilValue == [nil |-> TRUE]

\* The type assertion x.(*bucket) succeeds.
IsBucket(x) == x # NilValue

\* A bucket.Reset that leaves the successes.
MutBucketReset(b) == [b EXCEPT !.failure = 0]

\* bucket.Reset
BucketReset(b) == [b EXCEPT !.failure = 0, !.success = 0]

\* A bucket.Fail that counts in the wrong field.
MutBucketFail(b) == [b EXCEPT !.success = @ + 1]

\* bucket.Fail
BucketFail(b) == [b EXCEPT !.failure = @ + 1]

\* bucket.Success
BucketSuccess(b) == [b EXCEPT !.success = @ + 1]

\* ------------------------------------------------------------------- ring
\* ring.New(n): n elements with no Value, nil (no element) when n <= 0.
RingNew(n) == IF n <= 0 THEN <<>> ELSE [i \in 1..n |-> NilValue]

\* The position ring.New(n) returns, 0 for the nil ring.
RingStart(n) == IF n <= 0 THEN 0 ELSE 1

\* r.Next() from position i of the ring rg.
RingNext(rg, i) == (i % Len(rg)) + 1

\* A loop that stops one element short.
RECURSIVE MutFillRing(_, _, _)
MutFillRing(rg, cur, i) ==
    IF i >= Len(rg) - 1 THEN [ring |-> rg, buckets |-> cur]
    ELSE MutFillRing([rg EXCEPT ![cur] = NewBucket], RingNext(rg, cur), i + 1)

\* The loop of NewWindow from its i-th round on, the pointer on cur: each
\* round sets the Value of the element to a new bucket and moves on.
RECURSIVE FillRing(_, _, _)
FillRing(rg, cur, i) ==
    IF i >= Len(rg) THEN [ring |-> rg, buckets |-> cur]
    ELSE FillRing([rg EXCEPT ![cur] = NewBucket], RingNext(rg, cur), i + 1)

\* The type assertions of the function handed to r.Do succeed.
DoAsserts(rg) == \A i \in 1..Len(rg) : IsBucket(rg[i])

\* The positions r.Do visits, in order: it starts at r and follows Next until
\* it is back at r; a nil ring is not visited at all.
RingOrder(rg, cur) == [k \in 1..Len(rg) |-> ((cur + k - 2) % Len(rg)) + 1]

\* ---------------------------------------------------------------- queries
\* The sums a query keeps while it walks the ring.
NoSums == [failures |-> 0, successes |-> 0, total |-> 0]

\* The function Failures hands to Do.
VisitFailures(acc, bk) == [acc EXCEPT !.failures = @ + bk.failure]

\* The function Successes hands to Do.
VisitSuccesses(acc, bk) == [acc EXCEPT !.successes = @ + bk.success]

\* A function for ErrorRate that leaves the failures out of the total.
MutVisitErrorRate(acc, bk) ==
    [acc EXCEPT !.total = @ + bk.success,
                !.failures = @ + bk.failure]

\* The function ErrorRate hands to Do.
VisitErrorRate(acc, bk) ==
    [acc EXCEPT !.total = @ + bk.failure + bk.success,
                !.failures = @ + bk.failure]

Visit(o, acc, bk) ==
    CASE o = "Failures" -> VisitFailures(acc, bk)
      [] o = "Successes" -> VisitSuccesses(acc, bk)
      [] o = "ErrorRate" -> VisitErrorRate(acc, bk)

\* w.buckets.Do(f): the sums after the first k elements of the walk.
RECURSIVE RingDo(_, _, _, _)
RingDo(o, rg, cur, k) ==
    IF k = 0 THEN NoSums
    ELSE Visit(o, RingDo(o, rg, cur, k - 1), rg[RingOrder(rg, cur)[k]])

\* window.Failures
Failures(rg, cur) == RingDo("Failures", rg, cur, Len(rg)).failures

\* window.Successes
Successes(rg, cur) == RingDo("Successes", rg, cur, Len(rg)).successes

\* An ErrorRate that divides the failures by the successes.
MutRateOf(acc) ==
    IF acc.total = 0 THEN Zero
    ELSE Quotient(acc.failures, acc.total - acc.failures)

\* What ErrorRate returns once Do has left the sums acc.
RateOf(acc) ==
    IF acc.total = 0 THEN Zero ELSE Quotient(acc.failures, acc.total)

\* window.ErrorRate
ErrorRate(rg, cur) == RateOf(RingDo("ErrorRate", rg, cur, Len(rg)))

\* ------------------------------------------------------------- write path
\* A rotation check that also fires when exactly bucketTime has passed.
MutExpired(t, la, bt) == t - la >= bt

\* time.Since(w.lastAccess) > w.bucketTime
Expired(t, la, bt) == t - la > bt

\* The type assertions of a write at time t succeed: the one on the current
\* element and, when the write rotates, the one on the next.
WriteAsserts(rg, cur, t, la, bt) ==
    /\ cur # 0
    /\ IsBucket(rg[cur])
    /\ Expired(t, la, bt) => IsBucket(rg[RingNext(rg, cur)])

\* The current element after the rotation check of a write at time t.
Rotate(rg, cur, t, la, bt) ==
    IF Expired(t, la, bt) THEN RingNext(rg, cur) ELSE cur

\* A rotation that clears the whole ring once the whole window has gone by.
MutRotateRing(rg, cur, t, la, bt) ==
    IF ~Expired(t, la, bt) THEN rg
    ELSE IF t - la > Len(rg) * bt
         THEN [i \in 1..Len(rg) |-> BucketReset(rg[i])]
         ELSE [rg EXCEPT ![RingNext(rg, cur)] = BucketReset(@)]

\* A rotation that resets the next element only when it is another one.
MutRotateSame(rg, cur, t, la, bt) ==
    IF Expired(t, la, bt) /\ RingNext(rg, cur) # cur
    THEN [rg EXCEPT ![RingNext(rg, cur)] = BucketReset(@)]
    ELSE rg

\* The ring after the rotation check of a write at time t: the element
\* rotated into is reset.
RotateRing(rg, cur, t, la, bt) ==
    IF Expired(t, la, bt)
    THEN [rg EXCEPT ![RingNext(rg, cur)] = BucketReset(@)]
    ELSE rg

\* A write that keeps the old lastAccess unless it rotated.
MutLastAccessAfterWrite(la, t, rotated) == IF rotated THEN t ELSE la

\* w.lastAccess = time.Now() in a write at time t, after the rotation check.
LastAccessAfterWrite(la, t, rotated) == t

\* A Reset that misses the element Do starts at.
MutResetRing(rg) == [i \in 1..Len(rg) |-> IF i = 1 THEN rg[i] ELSE BucketReset(rg[i])]

\* window.Reset: r.Do resets every element.
ResetRing(rg) == [i \in 1..Len(rg) |-> BucketReset(rg[i])]

\* --------------------------------------------------- ghost bookkeeping
NoCall == [op |-> "none", val |-> 0, rate |-> Zero]

Returned(o, val, rate) == [op |-> o, val |-> val, rate |-> rate]

\* No write has rotated yet.
NoBurst == [at |-> -1, fail |-> 0, success |-> 0]

\* born after a write at time t into bucket cur (the bucket was reset first
\* when the write rotated).
BornAfterWrite(bn, cur, t, rotated) ==
    [bn EXCEPT ![cur] = IF rotated \/ @ = -1 THEN t ELSE @]

\* recorded after a write of kind o: a rotating write starts the entry of
\* the next number of rotations.
RecordedAfterWrite(rec, o, rotated) ==
    LET ev == IF o = "Fail" THEN BucketFail(NewBucket)
              ELSE BucketSuccess(NewBucket)
    IN  IF rotated THEN Append(rec, ev)
        ELSE [rec EXCEPT ![Len(rec)] =
                [failure |-> @.failure + ev.failure,
                 success |-> @.success + ev.success]]

\* ------------------------------------------------------------- goroutines
Procs == 1..NumProcs

WriteOps == {"Fail", "Success"}
ReadOps == {"Failures", "Successes", "ErrorRate"}

\* The local variables of a call: b is the bucket pointer of a write and the
\* element Do started at, k the number of elements Do has visited, tmp the
\* bucket as read by the increment, acc the sums of a query.
NoLocals == [b |-> 0, k |-> 0, tmp |-> NewBucket, acc |-> NoSums]

\* A Lock that does not wait for another writer.
MutCanLock(w, r) == r = {}

\* sync.RWMutex: Lock returns when nobody holds the lock.
CanLock(w, r) == w = 0 /\ r = {}

\* An RLock that does not wait for a writer.
MutCanRLock(w, r) == TRUE

\* sync.RWMutex: RLock returns when nobody holds the lock for writing.
CanRLock(w, r) == w = 0

\* ------------------------------------------------------------------- Init
\* The program before NewWindow, the goroutines having n calls to make.
Start(n) ==
    /\ windowBuckets \in -1..MaxBuckets
    /\ phase = "new"
    /\ panicAt = ""
    /\ ring = <<>>
    /\ buckets = 0
    /\ bucketTime = 0
    /\ lastAccess = 0
    /\ now = 0
    /\ last = NoCall
    /\ calls = [fail |-> 0, success |-> 0, reset |-> 0]
    /\ rotations = 0
    /\ born = <<>>
    /\ maxGap = 0
    /\ clean = FALSE
    /\ burst = NoBurst
    /\ recorded = <<NewBucket>>
    /\ pc = [p \in Procs |-> "idle"]
    /\ op = [p \in Procs |-> "none"]
    /\ loc = [p \in Procs |-> NoLocals]
    /\ lockW = 0
    /\ lockR = {}
    /\ budget = n

Init == Start(MaxCalls)

\* A panic in function fn: the program stops.
Panic(fn) ==
    /\ phase' = "panic"
    /\ panicAt' = fn

\* A panic in a method of the window.
Halt(fn) ==
    /\ Panic(fn)
    /\ UNCHANGED <<windowBuckets, ring, buckets, bucketTime, lastAccess, gvars,
                   cvars>>

\* NewWindow: ring.New returns nil for windowBuckets <= 0 and the loop over
\* buckets.Len() = 0 elements does nothing; the division panics for
\* windowBuckets = 0 and only for it.  (The ring the loop would have left is
\* the same with and without the panic, which comes after it.)
NewWindow(windowTime) ==
    /\ phase = "new"
    /\ IF windowBuckets = 0
       THEN /\ Panic("NewWindow")
            /\ UNCHANGED <<ring, buckets, bucketTime, lastAccess, born>>
       ELSE /\ phase' = "live"
            /\ ring' = FillRing(RingNew(windowBuckets),
                                RingStart(windowBuckets), 0).ring
            /\ buckets' = FillRing(RingNew(windowBuckets),
                                   RingStart(windowBuckets), 0).buckets
            /\ bucketTime' = GoDiv(windowTime, windowBuckets)
            /\ lastAccess' = now
            /\ born' = [i \in 1..Len(RingNew(windowBuckets)) |-> -1]
            /\ UNCHANGED panicAt
    /\ UNCHANGED <<windowBuckets, now, last, calls, rotations, maxGap, clean,
                   burst, recorded, cvars>>

\* ------------------------------------------------ one caller: whole calls
\* The caller pauses for d clock units and then makes the call.
Pause(d) ==
    /\ phase = "live"
    /\ now + d <= MaxTime
    /\ now' = now + d

\* window.Fail
Fail(d) ==
    /\ Pause(d)
    /\ calls.fail + calls.success < MaxWrites
    /\ IF ~WriteAsserts(ring, buckets, now', lastAccess, bucketTime)
       THEN /\ Panic("Fail")
            /\ UNCHANGED <<ring, buckets, lastAccess, gvars>>
       ELSE LET cur == Rotate(ring, buckets, now', lastAccess, bucketTime)
                rg == RotateRing(ring, buckets, now', lastAccess, bucketTime)
                rotated == Expired(now', lastAccess, bucketTime)
            IN  /\ buckets' = cur
                /\ lastAccess' = LastAccessAfterWrite(lastAccess, now', rotated)
                /\ ring' = [rg EXCEPT ![cur] = BucketFail(@)]
                /\ recorded' = RecordedAfterWrite(recorded, "Fail", rotated)
                /\ last' = Returned("Fail", 0, Zero)
                /\ calls' = [calls EXCEPT !.fail = @ + 1]
                /\ rotations' = rotations + (IF rotated THEN 1 ELSE 0)
                /\ born' = BornAfterWrite(born, cur, now', rotated)
                /\ maxGap' = IF now' - lastAccess > maxGap THEN now' - lastAccess ELSE maxGap
                /\ clean' = FALSE
                /\ UNCHANGED <<phase, panicAt, burst>>
    /\ UNCHANGED <<windowBuckets, bucketTime, cvars>>

\* window.Success
Success(d) ==
    /\ Pause(d)
    /\ calls.fail + calls.success < MaxWrites
    /\ IF ~WriteAsserts(ring, buckets, now', lastAccess, bucketTime)
       THEN /\ Panic("Success")
            /\ UNCHANGED <<ring, buckets, lastAccess, gvars>>
       ELSE LET cur == Rotate(ring, buckets, now', lastAccess, bucketTime)
                rg == RotateRing(ring, buckets, now', lastAccess, bucketTime)
                rotated == Expired(now', lastAccess, bucketTime)
            IN  /\ buckets' = cur
                /\ lastAccess' = LastAccessAfterWrite(lastAccess, now', rotated)
                /\ ring' = [rg EXCEPT ![cur] = BucketSuccess(@)]
                /\ recorded' = RecordedAfterWrite(recorded, "Success", rotated)
                /\ last' = Returned("Success", 0, Zero)
                /\ calls' = [calls EXCEPT !.success = @ + 1]
                /\ rotations' = rotations + (IF rotated THEN 1 ELSE 0)
                /\ born' = BornAfterWrite(born, cur, now', rotated)
                /\ maxGap' = IF now' - lastAccess > maxGap THEN now' - lastAccess ELSE maxGap
                /\ clean' = FALSE
                /\ UNCHANGED <<phase, panicAt, burst>>
    /\ UNCHANGED <<windowBuckets, bucketTime, cvars>>

\* A query that runs the rotation check of the write path.
MutQueryFrame ==
    /\ buckets' = IF buckets = 0 THEN 0
                  ELSE Rotate(ring, buckets, now', lastAccess, bucketTime)
    /\ ring' = IF buckets = 0 THEN ring
               ELSE RotateRing(ring, buckets, now', lastAccess, bucketTime)
    /\ UNCHANGED <<windowBuckets, phase, panicAt, bucketTime, lastAccess,
                   calls, rotations, born, maxGap, clean, burst, recorded,
                   cvars>>

\* What a query leaves alone.
QueryFrame ==
    UNCHANGED <<windowBuckets, phase, panicAt, ring, buckets, bucketTime,
                lastAccess, calls, rotations, born, maxGap, clean, burst,
                recorded, cvars>>

\* window.Failures
FailuresCall(d) ==
    /\ Pause(d)
    /\ IF DoAsserts(ring)
       THEN /\ last' = Returned("Failures", Failures(ring, buckets), Zero)
            /\ QueryFrame
       ELSE Halt("Failures")

\* window.Successes
SuccessesCall(d) ==
    /\ Pause(d)
    /\ IF DoAsserts(ring)
       THEN /\ last' = Returned("Successes", Successes(ring, buckets), Zero)
            /\ QueryFrame
       ELSE Halt("Successes")

\* window.ErrorRate
ErrorRateCall(d) ==
    /\ Pause(d)
    /\ IF DoAsserts(ring)
       THEN /\ last' = Returned("ErrorRate", 0, ErrorRate(ring, buckets))
            /\ QueryFrame
       ELSE Halt("ErrorRate")

\* A Reset that also restarts the clock of the rotation check.
MutReset(d) ==
    /\ Pause(d)
    /\ calls.reset < MaxResets
    /\ ring' = ResetRing(ring)
    /\ lastAccess' = now'
    /\ last' = Returned("Reset", 0, Zero)
    /\ calls' = [calls EXCEPT !.reset = @ + 1]
    /\ born' = [i \in 1..Len(born) |-> -1]
    /\ clean' = TRUE
    /\ UNCHANGED <<windowBuckets, phase, panicAt, buckets, bucketTime,
                   rotations, maxGap, burst, recorded, cvars>>

\* window.Reset
Reset(d) ==
    /\ Pause(d)
    /\ calls.reset < MaxResets
    /\ IF DoAsserts(ring)
       THEN /\ ring' = ResetRing(ring)
            /\ last' = Returned("Reset", 0, Zero)
            /\ calls' = [calls EXCEPT !.reset = @ + 1]
            /\ born' = [i \in 1..Len(born) |-> -1]
            /\ clean' = TRUE
            /\ UNCHANGED <<windowBuckets, phase, panicAt, buckets, bucketTime,
                           lastAccess, rotations, maxGap, burst, recorded,
                           cvars>>
       ELSE Halt("Reset")

Next ==
    \/ \E windowTime \in 0..MaxWindowTime : NewWindow(windowTime)
    \/ \E d \in 0..MaxPause : Fail(d)
    \/ \E d \in 0..MaxPause : Success(d)
    \/ \E d \in 0..MaxPause : FailuresCall(d)
    \/ \E d \in 0..MaxPause : SuccessesCall(d)
    \/ \E d \in 0..MaxPause : ErrorRateCall(d)
    \/ \E d \in 0..MaxPause : Reset(d)

Spec == Init /\ [][Next]_vars

\* ------------------------------------- several goroutines: steps of calls
\* time.Now() and time.Since() read the clock: it shows d units more than
\* at the last reading.
Clock(d) ==
    /\ now + d <= MaxTicks
    /\ now' = now + d

\* The calls of kind ops that are under way.
Started(ops) == Cardinality({p \in Procs : pc[p] # "idle" /\ op[p] \in ops})

\* Goroutine p calls method o and waits for the lock.
Call(p, o) ==
    /\ phase = "live"
    /\ pc[p] = "idle"
    /\ budget > 0
    /\ budget' = budget - 1
    /\ pc' = [pc EXCEPT ![p] = "lock"]
    /\ op' = [op EXCEPT ![p] = o]
    /\ UNCHANGED <<wvars, gvars, loc, lockW, lockR>>

\* w.bucketLock.Lock() in Fail, Success and Reset.
Lock(p) ==
    /\ phase = "live"
    /\ pc[p] = "lock"
    /\ op[p] \in WriteOps \cup {"Reset"}
    /\ CanLock(lockW, lockR)
    /\ lockW' = p
    /\ pc' = [pc EXCEPT ![p] = IF op[p] \in WriteOps THEN "rotate"
                               ELSE IF Len(ring) = 0 THEN "unlock"
                               ELSE "reset"]
    /\ loc' = [loc EXCEPT ![p].b = buckets]
    /\ UNCHANGED <<wvars, gvars, op, lockR, budget>>

\* Fail and Success: b = w.buckets.Value and the rotation check
\* time.Since(w.lastAccess) > w.bucketTime, on the clock as it is read now.
\* (Here and below, the deferred Unlock or RUnlock runs when a call panics.)
CheckRotate(p, d) ==
    /\ phase = "live"
    /\ pc[p] = "rotate"
    /\ IF buckets = 0 \/ ~IsBucket(ring[buckets])
       THEN /\ Panic(op[p])
            /\ lockW' = 0
            /\ UNCHANGED <<now, pc, loc>>
       ELSE /\ Clock(d)
            /\ pc' = [pc EXCEPT ![p] = IF Expired(now', lastAccess, bucketTime)
                                       THEN "advance" ELSE "touch"]
            /\ loc' = [loc EXCEPT ![p].b = buckets]
            /\ UNCHANGED <<phase, panicAt, lockW>>
    /\ UNCHANGED <<windowBuckets, ring, buckets, bucketTime, lastAccess, gvars,
                   op, lockR, budget>>

\* The body of the if: w.buckets = w.buckets.Next(), b = w.buckets.Value and
\* b.Reset().
Advance(p) ==
    /\ phase = "live"
    /\ pc[p] = "advance"
    /\ IF IsBucket(ring[RingNext(ring, buckets)])
       THEN /\ buckets' = RingNext(ring, buckets)
            /\ ring' = [ring EXCEPT ![RingNext(ring, buckets)] = BucketReset(@)]
            /\ loc' = [loc EXCEPT ![p].b = RingNext(ring, buckets)]
            /\ pc' = [pc EXCEPT ![p] = "touch"]
            /\ rotations' = rotations + 1
            /\ burst' = IF rotations = 0
                        THEN [at |-> now, fail |-> calls.fail,
                              success |-> calls.success]
                        ELSE burst
            /\ UNCHANGED <<phase, panicAt, lockW>>
       ELSE /\ Panic(op[p])
            /\ lockW' = 0
            /\ UNCHANGED <<buckets, ring, loc, pc, rotations, burst>>
    /\ UNCHANGED <<windowBuckets, bucketTime, lastAccess, now, last, calls,
                   born, maxGap, clean, recorded, op, lockR, budget>>

\* w.lastAccess = time.Now()
Touch(p, d) ==
    /\ phase = "live"
    /\ pc[p] = "touch"
    /\ Clock(d)
    /\ lastAccess' = now'
    /\ pc' = [pc EXCEPT ![p] = "load"]
    /\ UNCHANGED <<windowBuckets, phase, panicAt, ring, buckets, bucketTime,
                   gvars, op, loc, lockW, lockR, budget>>

\* b.Fail() and b.Success(): the counter is read ...
Load(p) ==
    /\ phase = "live"
    /\ pc[p] = "load"
    /\ loc' = [loc EXCEPT ![p].tmp = ring[loc[p].b]]
    /\ pc' = [pc EXCEPT ![p] = "store"]
    /\ UNCHANGED <<wvars, gvars, op, lockW, lockR, budget>>

\* ... and written back, one more.
Store(p) ==
    /\ phase = "live"
    /\ pc[p] = "store"
    /\ ring' = [ring EXCEPT ![loc[p].b] =
                  IF op[p] = "Fail"
                  THEN [@ EXCEPT !.failure = BucketFail(loc[p].tmp).failure]
                  ELSE [@ EXCEPT !.success = BucketSuccess(loc[p].tmp).success]]
    /\ pc' = [pc EXCEPT ![p] = "unlock"]
    /\ UNCHANGED <<windowBuckets, phase, panicAt, buckets, bucketTime,
                   lastAccess, now, gvars, op, loc, lockW, lockR, budget>>

\* Reset: Do resets one more element of the ring.
ResetStep(p) ==
    /\ phase = "live"
    /\ pc[p] = "reset"
    /\ LET pos == RingOrder(ring, loc[p].b)[loc[p].k + 1]
       IN  IF IsBucket(ring[pos])
           THEN /\ ring' = [ring EXCEPT ![pos] = BucketReset(@)]
                /\ loc' = [loc EXCEPT ![p].k = @ + 1]
                /\ pc' = [pc EXCEPT ![p] = IF loc[p].k + 1 = Len(ring)
                                           THEN "unlock" ELSE "reset"]
                /\ UNCHANGED <<phase, panicAt, lockW>>
           ELSE /\ Panic(op[p])
                /\ lockW' = 0
                /\ UNCHANGED <<ring, loc, pc>>
    /\ UNCHANGED <<windowBuckets, buckets, bucketTime, lastAccess, now, gvars,
                   op, lockR, budget>>

\* A return of Fail, Success and Reset that leaves the lock held.
MutUnlock(p) ==
    /\ phase = "live"
    /\ pc[p] = "unlock"
    /\ pc' = [pc EXCEPT ![p] = "idle"]
    /\ op' = [op EXCEPT ![p] = "none"]
    /\ loc' = [loc EXCEPT ![p] = NoLocals]
    /\ calls' = CASE op[p] = "Fail" -> [calls EXCEPT !.fail = @ + 1]
                  [] op[p] = "Success" -> [calls EXCEPT !.success = @ + 1]
                  [] op[p] = "Reset" -> [calls EXCEPT !.reset = @ + 1]
    /\ UNCHANGED <<wvars, last, rotations, born, maxGap, clean, burst,
                   recorded, lockW, lockR, budget>>

\* The deferred w.bucketLock.Unlock(): Fail, Success and Reset return.
Unlock(p) ==
    /\ phase = "live"
    /\ pc[p] = "unlock"
    /\ lockW' = 0
    /\ pc' = [pc EXCEPT ![p] = "idle"]
    /\ op' = [op EXCEPT ![p] = "none"]
    /\ loc' = [loc EXCEPT ![p] = NoLocals]
    /\ calls' = CASE op[p] = "Fail" -> [calls EXCEPT !.fail = @ + 1]
                  [] op[p] = "Success" -> [calls EXCEPT !.success = @ + 1]
                  [] op[p] = "Reset" -> [calls EXCEPT !.reset = @ + 1]
    /\ UNCHANGED <<wvars, last, rotations, born, maxGap, clean, burst,
                   recorded, lockR, budget>>

\* w.bucketLock.RLock() in Failures, Successes and ErrorRate, and the walk
\* of w.buckets.Do over the ring.
RLock(p) ==
    /\ phase = "live"
    /\ pc[p] = "lock"
    /\ op[p] \in ReadOps
    /\ CanRLock(lockW, lockR)
    /\ IF DoAsserts(ring)
       THEN /\ lockR' = lockR \cup {p}
            /\ pc' = [pc EXCEPT ![p] = "return"]
            /\ loc' = [loc EXCEPT ![p].b = buckets,
                                  ![p].k = Len(ring),
                                  ![p].acc = RingDo(op[p], ring, buckets,
                                                    Len(ring))]
            /\ UNCHANGED <<phase, panicAt>>
       ELSE /\ Panic(op[p])
            /\ UNCHANGED <<lockR, pc, loc>>
    /\ UNCHANGED <<windowBuckets, ring, buckets, bucketTime, lastAccess, now,
                   gvars, op, lockW, budget>>

\* What the query of goroutine p returns, as a rate.
ReturnValue(p) ==
    CASE op[p] = "Failures" -> [num |-> loc[p].acc.failures, den |-> 1]
      [] op[p] = "Successes" -> [num |-> loc[p].acc.successes, den |-> 1]
      [] op[p] = "ErrorRate" -> RateOf(loc[p].acc)

\* Failures, Successes and ErrorRate return and the deferred RUnlock runs.
ReturnRead(p) ==
    /\ phase = "live"
    /\ pc[p] = "return"
    /\ lockR' = lockR \ {p}
    /\ pc' = [pc EXCEPT ![p] = "idle"]
    /\ op' = [op EXCEPT ![p] = "none"]
    /\ loc' = [loc EXCEPT ![p] = NoLocals]
    /\ UNCHANGED <<wvars, gvars, lockW, budget>>

ConcNext ==
    \/ \E windowTime \in 0..MaxWindowTime : NewWindow(windowTime)
    \/ \E p \in Procs, o \in WriteOps \cup ReadOps \cup {"Reset"} : Call(p, o)
    \/ \E p \in Procs : Lock(p)
    \/ \E p \in Procs, d \in 0..MaxTicks : CheckRotate(p, d)
    \/ \E p \in Procs : Advance(p)
    \/ \E p \in Procs, d \in 0..MaxTicks : Touch(p, d)
    \/ \E p \in Procs : Load(p)
    \/ \E p \in Procs : Store(p)
    \/ \E p \in Procs : ResetStep(p)
    \/ \E p \in Procs : Unlock(p)
    \/ \E p \in Procs : RLock(p)
    \/ \E p \in Procs : ReturnRead(p)

ConcSpec == Init /\ [][ConcNext]_vars

\* A step of goroutine p between taking the lock and returning, the clock
\* showing the same or one more where the step reads it.
Run(p) ==
    \/ \E d \in {0, 1} : CheckRotate(p, d)
    \/ Advance(p)
    \/ \E d \in {0, 1} : Touch(p, d)
    \/ Load(p)
    \/ Store(p)
    \/ ResetStep(p)
    \/ Unlock(p)
    \/ ReturnRead(p)

\* As ConcNext, on windows of bucketTime 0, where every write that sees the
\* clock advance rotates, and with a clock that shows the same or one more.
FairNext ==
    \/ NewWindow(0)
    \/ \E p \in Procs, o \in WriteOps \cup ReadOps \cup {"Reset"} : Call(p, o)
    \/ \E p \in Procs : Lock(p)
    \/ \E p \in Procs : RLock(p)
    \/ \E p \in Procs : Run(p)

FairInit == Start(MaxFairCalls)

\* The goroutines under a fair scheduler and a fair lock: a goroutine that
\* can run does run, and a Lock or RLock that could return from some time on
\* does return.  (sync.RWMutex promises more: it lets no Lock or RLock
\* starve.)  Nothing makes a goroutine call the window.
FairSpec ==
    /\ FairInit
    /\ [][FairNext]_vars
    /\ \A p \in Procs :
         /\ WF_vars(Run(p))
         /\ WF_vars(Lock(p))
         /\ WF_vars(RLock(p))

\* ------------------------------------------------------------- properties
\* The sum of one field over the positions 1..Len(rg) other than skip, taken
\* position by position (not by the walk of Do).
RECURSIVE CountFrom(_, _, _, _)
CountFrom(rg, i, field, skip) ==
    IF i > Len(rg) THEN 0
    ELSE (IF i = skip THEN 0
          ELSE IF field = "failure" THEN rg[i].failure ELSE rg[i].success)
         + CountFrom(rg, i + 1, field, skip)

TotalFailures == CountFrom(ring, 1, "failure", 0)
TotalSuccesses == CountFrom(ring, 1, "success", 0)

\* The rate r is the quotient n / d.
IsQuotient(r, n, d) == r.den > 0 /\ r.num * d = r.den * n

\* A step of Spec is a Fail or Success call that returned.
WriteStep == calls'.fail + calls'.success = calls.fail + calls.success + 1

\* C1: a write made when more than bucketTime has passed since lastAccess,
\* however much more, moves the current pointer one position on (mod the
\* length of the ring), leaves the bucket rotated into with exactly the one
\* event it records, and leaves every other bucket as it was and counted in
\* Failures() and Successes().
C1_SingleStepRotation ==
    [][ (WriteStep /\ now' - lastAccess > bucketTime) =>
          LET nxt == (buckets % Len(ring)) + 1
          IN  /\ buckets' = nxt
              /\ Len(ring') = Len(ring)
              /\ ring'[nxt] = IF calls'.fail = calls.fail + 1
                              THEN [failure |-> 1, success |-> 0]
                              ELSE [failure |-> 0, success |-> 1]
              /\ \A i \in 1..Len(ring) : i # nxt => ring'[i] = ring[i]
              /\ Failures(ring', buckets')
                   = CountFrom(ring, 1, "failure", nxt) + ring'[nxt].failure
              /\ Successes(ring', buckets')
                   = CountFrom(ring, 1, "success", nxt) + ring'[nxt].success
      ]_vars

\* C1 witness: on a ring of two buckets of one clock unit or more, the second
\* write came after more than the whole window, rotated once, and the first
\* bucket still holds its event.
C1_Witness ==
    /\ phase = "live"
    /\ Len(ring) >= 2
    /\ bucketTime >= 1
    /\ calls.fail + calls.success = 2
    /\ rotations = 1
    /\ maxGap > Len(ring) * bucketTime
    /\ buckets = 2
    /\ ring[1].failure + ring[1].success = 1
    /\ ring[2].failure + ring[2].success = 1

\* C2: on a fresh window, while less than bucketTime has passed since
\* NewWindow and only Fail, Success and queries were called, no write has
\* rotated, every event is in the first bucket, Failures() and Successes()
\* are the numbers of Fail and Success calls, and ErrorRate() is
\* f / (f + s) when there was a call.
C2_NoRotationWithinBucket ==
    (phase = "live" /\ calls.reset = 0 /\ now < bucketTime) =>
        /\ rotations = 0
        /\ buckets = 1
        /\ ring[1] = [failure |-> calls.fail, success |-> calls.success]
        /\ \A i \in 2..Len(ring) : ring[i] = [failure |-> 0, success |-> 0]
        /\ Failures(ring, buckets) = calls.fail
        /\ Successes(ring, buckets) = calls.success
        /\ Failures(ring, buckets) + Successes(ring, buckets)
             = calls.fail + calls.success
        /\ calls.fail + calls.success > 0 =>
             IsQuotient(ErrorRate(ring, buckets), calls.fail,
                        calls.fail + calls.success)
        /\ last.op = "Failures" => last.val = calls.fail
        /\ last.op = "Successes" => last.val = calls.success
        /\ (last.op = "ErrorRate" /\ calls.fail + calls.success > 0) =>
             IsQuotient(last.rate, calls.fail, calls.fail + calls.success)

\* C2 witness: the clock has advanced, but by less than bucketTime, both
\* kinds of event were recorded and ErrorRate was called.
C2_Witness ==
    /\ phase = "live"
    /\ calls.reset = 0
    /\ 0 < now /\ now < bucketTime
    /\ calls.fail >= 1
    /\ calls.success >= 1
    /\ last.op = "ErrorRate"
    /\ last.rate = [num |-> calls.fail \div Gcd(calls.fail, calls.fail + calls.success),
                    den |-> (calls.fail + calls.success)
                              \div Gcd(calls.fail, calls.fail + calls.success)]

\* C3: on a fresh window on which the goroutines have only called Fail (and
\* queries), once every Fail call has returned and fewer writes have rotated
\* than the ring has buckets, Failures() is the number of Fail calls and
\* Successes() is 0, whatever the order in which they took the lock.
C3_NoLostUpdates ==
    (/\ phase = "live"
     /\ calls.success = 0
     /\ calls.reset = 0
     /\ Started(WriteOps \cup {"Reset"}) = 0
     /\ rotations < Len(ring)) =>
        /\ Failures(ring, buckets) = calls.fail
        /\ Successes(ring, buckets) = 0
        /\ \A p \in Procs :
             /\ (pc[p] = "return" /\ op[p] = "Failures") =>
                   loc[p].acc.failures = calls.fail
             /\ (pc[p] = "return" /\ op[p] = "Successes") =>
                   loc[p].acc.successes = 0

\* C3 witness: two Fail calls have returned, one of them rotated, and a
\* Failures call is about to return 2.
C3_Witness ==
    /\ phase = "live"
    /\ calls = [fail |-> 2, success |-> 0, reset |-> 0]
    /\ rotations = 1
    /\ Len(ring) = 2
    /\ \E p \in Procs :
         pc[p] = "return" /\ op[p] = "Failures" /\ loc[p].acc.failures = 2

\* C4: NewWindow with windowBuckets <= 0 fails inside NewWindow: no window is
\* returned, and no later call is the first to panic.
C4_FatalAtConstruction ==
    /\ phase = "live" => windowBuckets > 0
    /\ phase = "panic" => panicAt = "NewWindow"

\* C5: while no write has seen more than bucketTime since the write before
\* it, and no more than bucketTime has passed since the last write, every
\* event still counted was recorded at most Len(ring) * bucketTime ago.
C5_BoundedCoverage ==
    (phase = "live" /\ maxGap <= bucketTime /\ now - lastAccess <= bucketTime) =>
        \A i \in 1..Len(ring) :
            born[i] # -1 => now - born[i] <= Len(ring) * bucketTime

\* C6: after Reset has returned and before the next write, Failures() and
\* Successes() are 0 and ErrorRate() is 0.0, and so is what a query called
\* in between returned, whatever was recorded before and wherever the
\* current pointer is.
C6_ReadsZeroAfterReset ==
    (phase = "live" /\ clean) =>
        /\ Failures(ring, buckets) = 0
        /\ Successes(ring, buckets) = 0
        /\ ErrorRate(ring, buckets) = Zero
        /\ last.op \in {"Failures", "Successes"} => last.val = 0
        /\ last.op = "ErrorRate" => last.rate = Zero

\* C6 witness: events were recorded in two buckets, the pointer is on the
\* second, Reset returned and ErrorRate was called after it.
C6_Witness ==
    /\ phase = "live"
    /\ clean
    /\ calls.fail >= 1
    /\ calls.fail + calls.success >= 2
    /\ rotations >= 1
    /\ buckets = 2
    /\ last.op = "ErrorRate"

\* C7: what ErrorRate() returned is 0.0 when no bucket of the ring holds an
\* event, and otherwise the failures of all buckets divided by the failures
\* and successes of all buckets; the divisor is never 0.
C7_ErrorRateValue ==
    (phase = "live" /\ last.op = "ErrorRate") =>
        /\ last.rate.den > 0
        /\ TotalFailures + TotalSuccesses = 0 => last.rate = Zero
        /\ TotalFailures + TotalSuccesses > 0 =>
             IsQuotient(last.rate, TotalFailures, TotalFailures + TotalSuccesses)

\* C7 witness: ErrorRate returned 1/3 or 2/3 over two buckets that both hold
\* events.
C7_Witness ==
    /\ phase = "live"
    /\ last.op = "ErrorRate"
    /\ last.rate.den = 3
    /\ Len(ring) = 2
    /\ ring[1].failure + ring[1].success >= 1
    /\ ring[2].failure + ring[2].success >= 1

\* C8: whatever the goroutines are doing, every count of every bucket is at
\* least 0, the failures a query has summed are at most its total, and the
\* rate ErrorRate() is about to return, like the rate of the ring as it is,
\* lies between 0.0 and 1.0.
C8_ErrorRateInUnitInterval ==
    phase = "live" =>
        /\ \A i \in 1..Len(ring) : ring[i].failure >= 0 /\ ring[i].success >= 0
        /\ LET r == ErrorRate(ring, buckets)
           IN  r.den > 0 /\ 0 <= r.num /\ r.num <= r.den
        /\ \A p \in Procs : (pc[p] = "return" /\ op[p] = "ErrorRate") =>
             /\ 0 <= loc[p].acc.failures
             /\ loc[p].acc.failures <= loc[p].acc.total
             /\ ReturnValue(p).den > 0
             /\ 0 <= ReturnValue(p).num
             /\ ReturnValue(p).num <= ReturnValue(p).den

\* C8 witness: ErrorRate is about to return 1.0, the one failure recorded,
\* while another goroutine waits for the lock to write or to reset.
C8_Witness ==
    /\ phase = "live"
    /\ \E p, q \in Procs :
         /\ pc[p] = "return" /\ op[p] = "ErrorRate"
         /\ loc[p].acc.total = 1
         /\ ReturnValue(p) = [num |-> 1, den |-> 1]
         /\ pc[q] = "lock" /\ op[q] \in WriteOps \cup {"Reset"}

\* C9: a Failures, Successes or ErrorRate call leaves the buckets, the
\* current pointer, lastAccess and bucketTime as they were, however long
\* after lastAccess it is made, and returns the sums over the ring as it is.
C9_ReadsArePure ==
    [][ last'.op \in ReadOps =>
          /\ ring' = ring
          /\ buckets' = buckets
          /\ lastAccess' = lastAccess
          /\ bucketTime' = bucketTime
          /\ rotations' = rotations
          /\ last'.op = "Failures" => last'.val = TotalFailures
          /\ last'.op = "Successes" => last'.val = TotalSuccesses
          /\ (last'.op = "ErrorRate" /\ TotalFailures + TotalSuccesses > 0) =>
               IsQuotient(last'.rate, TotalFailures,
                          TotalFailures + TotalSuccesses)
      ]_vars

\* C9 witness: a query made after more than the whole window had passed
\* since the last write returned the event recorded then.
C9_Witness ==
    /\ phase = "live"
    /\ bucketTime >= 1
    /\ now - lastAccess > Len(ring) * bucketTime
    /\ last.op \in {"Failures", "Successes"}
    /\ last.val >= 1

\* C10: Reset leaves every bucket at zero and leaves the length of the ring,
\* the current pointer, lastAccess and bucketTime as they were, so the
\* rotation check of a write at any later time decides as it would have.
C10_ResetFrame ==
    [][ calls'.reset = calls.reset + 1 =>
          /\ Len(ring') = Len(ring)
          /\ \A i \in 1..Len(ring') : ring'[i] = [failure |-> 0, success |-> 0]
          /\ buckets' = buckets
          /\ lastAccess' = lastAccess
          /\ bucketTime' = bucketTime
          /\ \A t \in now'..MaxTime :
               /\ Expired(t, lastAccess', bucketTime')
                    = Expired(t, lastAccess, bucketTime)
               /\ buckets # 0 =>
                    Rotate(ring', buckets', t, lastAccess', bucketTime')
                      = Rotate(ring, buckets, t, lastAccess, bucketTime)
      ]_vars

\* C10 witness: Reset returned on a ring whose pointer is on the second
\* bucket, at a time when the next write rotates.
C10_Witness ==
    /\ phase = "live"
    /\ last.op = "Reset"
    /\ calls.fail + calls.success >= 2
    /\ buckets = 2
    /\ now - lastAccess > bucketTime

\* No Reset call has taken the lock.
NoResetYet ==
    /\ calls.reset = 0
    /\ \A p \in Procs : op[p] = "Reset" => pc[p] = "lock"

\* C11: on a window that was not written for more than bucketTime, while
\* the clock has shown less than bucketTime more than it did at the write
\* that rotated first (and Reset has not run), that write is the only one that
\* rotated and the current pointer is one position on; once every write has
\* returned, the bucket rotated into holds one event for each of the writes
\* that came with or after the first one to rotate, none of them lost to a
\* second reset.
C11_NoDoubleRotation ==
    (/\ phase = "live"
     /\ burst.at # -1
     /\ now - burst.at < bucketTime
     /\ NoResetYet) =>
        /\ rotations = 1
        /\ buckets = RingNext(ring, 1)
        /\ Started(WriteOps) = 0 =>
              ring[buckets] = [failure |-> calls.fail - burst.fail,
                               success |-> calls.success - burst.success]

\* C11 witness: after a gap of more than bucketTime one write rotated and
\* returned, a second one, made within less than bucketTime of it, has put
\* its event in the same bucket and still holds the lock, and a third waits
\* for the lock.
C11_Witness ==
    /\ phase = "live"
    /\ bucketTime >= 1
    /\ burst = [at |-> now, fail |-> 0, success |-> 0]
    /\ rotations = 1
    /\ calls.fail + calls.success = 1
    /\ Len(ring) = 2
    /\ buckets = 2
    /\ ring[2].failure + ring[2].success = 2
    /\ \E p, q \in Procs :
         /\ pc[q] = "unlock" /\ op[q] \in WriteOps
         /\ pc[p] = "lock" /\ op[p] \in WriteOps

\* C12: a Failures, Successes or ErrorRate call that has made its sums and
\* has not returned yet holds the sums of the ring as it is now, and the ring
\* is not in the middle of a write or of Reset: nobody holds the lock for
\* writing and every Fail, Success and Reset call has either returned or is
\* still waiting for the lock.  So what it returns are the sums of one state
\* between two operations, which existed between its call and its return.
C12_NoTornReads ==
    phase = "live" =>
        \A p \in Procs : pc[p] = "return" =>
            /\ lockW = 0
            /\ \A q \in Procs :
                 op[q] \in WriteOps \cup {"Reset"} => pc[q] = "lock"
            /\ loc[p].acc = RingDo(op[p], ring, buckets, Len(ring))
            /\ op[p] = "Failures" => ReturnValue(p).num = TotalFailures
            /\ op[p] = "Successes" => ReturnValue(p).num = TotalSuccesses
            /\ op[p] = "ErrorRate" => ReturnValue(p) = ErrorRate(ring, buckets)

\* C12 witness: a write has rotated and returned, Failures is about to
\* return the one failure, and a rotating write or a Reset called meanwhile
\* waits for the lock.
C12_Witness ==
    /\ phase = "live"
    /\ rotations = 1
    /\ calls.fail = 1
    /\ \E p, q \in Procs :
         /\ pc[p] = "return" /\ op[p] = "Failures"
         /\ ReturnValue(p).num = 1
         /\ pc[q] = "lock" /\ op[q] \in {"Success", "Reset"}

\* The events of one kind recorded at the numbers of rotations k - 1 and more.
RECURSIVE RecordedFrom(_, _, _)
RecordedFrom(rec, k, field) ==
    IF k > Len(rec) THEN 0
    ELSE (IF field = "failure" THEN rec[k].failure ELSE rec[k].success)
         + RecordedFrom(rec, k + 1, field)

\* C13: as long as Reset was not called, the events recorded when r writes
\* had rotated are all still in their bucket while fewer than Len(ring)
\* writes have rotated since, however long ago that was, and the pointer is
\* back on that bucket at the Len(ring)-th rotation after r and at no earlier
\* one; Failures() and Successes() count the events recorded over the
\* last Len(ring) numbers of rotations and no others.
C13_EvictionByRotation ==
    (phase = "live" /\ calls.reset = 0 /\ Len(ring) >= 1) =>
        LET n == Len(ring)
            oldest == IF rotations + 1 > n THEN rotations + 2 - n ELSE 1
        IN  /\ Len(recorded) = rotations + 1
            /\ buckets = (rotations % n) + 1
            /\ \A r \in 0..rotations :
                 /\ rotations - r < n => ring[(r % n) + 1] = recorded[r + 1]
                 /\ (r % n) + 1 = buckets <=> (rotations - r) % n = 0
            /\ Failures(ring, buckets) = RecordedFrom(recorded, oldest, "failure")
            /\ Successes(ring, buckets) = RecordedFrom(recorded, oldest, "success")

\* C13 witness: on a ring of two buckets three events were recorded, the
\* first of them more than the whole window ago and one rotation ago, and
\* all three are still counted.
C13_Witness ==
    /\ phase = "live"
    /\ calls.reset = 0
    /\ Len(ring) = 2
    /\ bucketTime >= 1
    /\ rotations = 1
    /\ born[1] # -1
    /\ now - born[1] > Len(ring) * bucketTime
    /\ recorded[1].failure + recorded[1].success >= 1
    /\ calls.fail + calls.success = 3
    /\ Failures(ring, buckets) + Successes(ring, buckets) = 3

\* C14: when NewWindow was given windowBuckets >= 1, nothing has panicked,
\* and in the window it returned the ring has windowBuckets elements, the
\* current pointer is on one of them, every element holds a bucket, and so
\* the type assertions of a write at any later time and those of the queries
\* and of Reset succeed.
C14_Totality ==
    windowBuckets >= 1 =>
        /\ phase # "panic"
        /\ panicAt = ""
        /\ phase = "live" =>
              /\ Len(ring) = windowBuckets
              /\ buckets \in 1..Len(ring)
              /\ \A i \in 1..Len(ring) : IsBucket(ring[i])
              /\ DoAsserts(ring)
              /\ \A t \in now..MaxTime :
                    WriteAsserts(ring, buckets, t, lastAccess, bucketTime)

\* C14 witness: on a ring of two buckets both kinds of event were recorded,
\* the pointer has gone round the ring once, Reset was called and ErrorRate
\* has just returned.
C14_Witness ==
    /\ phase = "live"
    /\ windowBuckets = 2
    /\ calls.fail >= 1
    /\ calls.success >= 1
    /\ calls.reset = 1
    /\ rotations = 2
    /\ buckets = 1
    /\ last.op = "ErrorRate"

\* C15 as claimed: a write rotates one step exactly when now - lastAccess
\* >= bucketTime, so also when exactly bucketTime has passed.
C15_InclusiveThreshold ==
    [][ WriteStep =>
          IF now' - lastAccess >= bucketTime
          THEN rotations' = rotations + 1 /\ buckets' = RingNext(ring, buckets)
          ELSE rotations' = rotations /\ buckets' = buckets
      ]_vars

\* C15 as amended: a write rotates one step exactly when now - lastAccess
\* > bucketTime; when exactly bucketTime has passed, or less, it does not
\* rotate.
C15_ExclusiveThreshold ==
    [][ WriteStep =>
          IF now' - lastAccess > bucketTime
          THEN rotations' = rotations + 1 /\ buckets' = RingNext(ring, buckets)
          ELSE rotations' = rotations /\ buckets' = buckets
      ]_vars

\* C15 witness: on a window whose buckets last one clock unit or more, the
\* longest gap a write has seen is exactly bucketTime, and no write rotated.
C15_Witness ==
    /\ phase = "live"
    /\ bucketTime >= 1
    /\ calls.fail + calls.success >= 1
    /\ maxGap = bucketTime
    /\ rotations = 0
    /\ buckets = 1

\* C16: a Fail or Success call leaves lastAccess at the time of the call,
\* whether it rotated or not, and rotates exactly when more than bucketTime
\* has passed since the lastAccess it found, which is the time of the write
\* before it or of NewWindow; a Failures, Successes, ErrorRate or Reset
\* call leaves lastAccess as it was.
C16_LastAccessIsLastWrite ==
    [][ /\ WriteStep =>
             /\ lastAccess' = now'
             /\ rotations' # rotations <=> now' - lastAccess > bucketTime
        /\ last'.op \in ReadOps \cup {"Reset"} => lastAccess' = lastAccess
      ]_vars

\* C16 witness: a write that did not rotate has set lastAccess although the
\* bucket it wrote to has been the current one for more than bucketTime.
C16_Witness ==
    /\ phase = "live"
    /\ bucketTime >= 1
    /\ last.op \in WriteOps
    /\ rotations = 0
    /\ calls.fail + calls.success >= 2
    /\ lastAccess = now
    /\ now - born[buckets] > bucketTime

\* The goroutines that hold the lock.
Holders == (IF lockW = 0 THEN {} ELSE {lockW}) \cup lockR

\* C17: under a fair scheduler and a fair lock every call that was made
\* returns (or the program has panicked, the lock released); in no state
\* is a call that holds the lock waiting for anything, so a holder can always
\* take its next step, and whenever a call waits for the lock some goroutine
\* holds it.
C17_Termination ==
    /\ [](phase = "live" =>
            /\ \A p \in Holders : pc[p] \notin {"idle", "lock"} /\ ENABLED Run(p)
            /\ \A p \in Procs : pc[p] = "lock" =>
                  \/ ENABLED Lock(p)
                  \/ ENABLED RLock(p)
                  \/ Holders # {})
    /\ [](phase = "panic" => Holders = {})
    /\ \A p \in Procs :
         (pc[p] # "idle") ~> (pc[p] = "idle" \/ phase = "panic")

\* C17 witness: a Reset is part way through the ring, holding the lock, and
\* a query called meanwhile waits for the lock.
C17_Witness ==
    /\ phase = "live"
    /\ Len(ring) = 2
    /\ \E p, q \in Procs :
         /\ lockW = q /\ op[q] = "Reset" /\ pc[q] = "reset" /\ loc[q].k = 1
         /\ pc[p] = "lock" /\ op[p] \in ReadOps
         /\ ~ENABLED RLock(p)

\* C18: after a Fail call Failures() is one more than before, less the
\* failures of the bucket rotated into if the write rotated, and Successes()
\* is what it was, less the successes of that bucket; for a Success call the
\* same with the two kinds exchanged.  After a write that rotated the current
\* bucket holds the one event recorded and nothing else.
C18_WriteAccounting ==
    [][ WriteStep =>
          LET rotated == now' - lastAccess > bucketTime
              cleared == IF rotated THEN ring[RingNext(ring, buckets)]
                         ELSE [failure |-> 0, success |-> 0]
              isFail == calls'.fail = calls.fail + 1
          IN  /\ Failures(ring', buckets')
                   = Failures(ring, buckets) - cleared.failure
                       + (IF isFail THEN 1 ELSE 0)
              /\ Successes(ring', buckets')
                   = Successes(ring, buckets) - cleared.success
                       + (IF isFail THEN 0 ELSE 1)
              /\ rotated =>
                   ring'[buckets'] = IF isFail THEN [failure |-> 1, success |-> 0]
                                     ELSE [failure |-> 0, success |-> 1]
      ]_vars

\* C18 witness: on a ring of two buckets a Fail call has rotated back into the
\* first bucket, which held successes: they are no longer counted, and the
\* bucket holds the one failure.
C18_Witness ==
    /\ phase = "live"
    /\ calls.reset = 0
    /\ Len(ring) = 2
    /\ rotations = 2
    /\ last.op = "Fail"
    /\ recorded[1].success >= 1
    /\ buckets = 1
    /\ ring[1] = [failure |-> 1, success |-> 0]
    /\ Successes(ring, buckets) = calls.success - recorded[1].success

\* C19: on a window of one bucket the next bucket is the current one, and
\* after a write made more than bucketTime after lastAccess Failures() +
\* Successes() is 1, whatever was recorded before.
C19_OneBucketCleared ==
    [][ (WriteStep /\ windowBuckets = 1 /\ now' - lastAccess > bucketTime) =>
          /\ RingNext(ring, buckets) = buckets
          /\ buckets' = buckets
          /\ Failures(ring', buckets') + Successes(ring', buckets') = 1
          /\ TotalFailures' + TotalSuccesses' = 1
      ]_vars

\* C19 witness: on a window of one bucket two events were recorded, then a
\* third after more than bucketTime, and only the third is counted.
C19_Witness ==
    /\ phase = "live"
    /\ windowBuckets = 1
    /\ calls.reset = 0
    /\ rotations = 1
    /\ last.op \in WriteOps
    /\ recorded[1].failure + recorded[1].success = 2
    /\ recorded[2].failure + recorded[2].success = 1
    /\ Failures(ring, buckets) + Successes(ring, buckets) = 1

====
